---- MODULE Spec2Model ----
(***************************************************************************)
(* Model of the rust-ai-auditor audit pipeline: the compile check          *)
(* (services::check_compilation), the orchestration that stores its        *)
(* verdict (services::create_audit), the read paths (list_audits,          *)
(* get_audit_by_id, the GraphQL resolvers), the statistics query and the   *)
(* error-to-response mapping (AppError::into_response).                    *)
(*                                                                         *)
(* Requests are served concurrently by the tokio runtime: each request of  *)
(* Requests is one in-flight create_audit invocation; a read is a single   *)
(* SELECT and takes one step.  The PostgreSQL store is the external        *)
(* collaborator: every statement is one atomic step on `store` and is      *)
(* taken to succeed.  Texts are sequences of code points, process output   *)
(* is a sequence of bytes.                                                 *)
(***************************************************************************)
EXTENDS Integers, Sequences, FiniteSets, TLC

\* ---------------------------------------------------------------- bounds
MaxRequests == 2      \* create requests in flight at the same time
MaxRecords  == 2      \* rows the store may hold

Requests == 1..MaxRequests
Ids      == 1..MaxRecords

\* ------------------------------------------------------------ input sets
\* Snippets a caller may submit: "A" and "B" do not compile, "G" compiles
\* (with a warning on stderr).
Snippets == {"A", "B", "G"}
Prompts  == {"p"}

\* ------------------------------------------------------------ text values
Invalid     == 255                \* a byte that is not valid UTF-8
Replacement == 65533              \* U+FFFD
M1Bytes     == <<77, 49>>         \* stderr of rustc on snippet "A"
M2Bytes     == <<77, Invalid>>    \* stderr of rustc on snippet "B"
WarnBytes   == <<87>>             \* stderr of rustc on snippet "G"
NoReadBytes == <<82>>             \* stderr of rustc when the source is gone
WriteFailed  == <<70, 87>>        \* "Failed to write temp file: ..."
LaunchFailed == <<70, 88>>        \* "Failed to execute rustc: ..."
DbGeneric    == <<68, 66>>        \* "An internal database error occurred"

\* Option<T>
None    == [some |-> FALSE]
Some(x) == [some |-> TRUE, val |-> x]

\* ------------------------------------------------------------ filesystem
NoFile  == "<absent>"
Empty   == ""
Library == "<rlib>"

\* let temp_file = "/tmp/audit_test.rs": the same path for every invocation
temp_file(r) == "/tmp/audit_test.rs"

\* the library rustc produces in --out-dir /tmp for that source file
artifact(r) == "/tmp/libaudit_test.rlib"

Paths == {temp_file(r) : r \in Requests} \cup {artifact(r) : r \in Requests}

\* ------------------------------------------------------------ the compiler
\* What `rustc --crate-type lib --out-dir /tmp <file>` does with the file
\* content it finds: exit status and standard error.
rustc(content) ==
    CASE content = NoFile -> [success |-> FALSE, stderr |-> NoReadBytes]
      [] content = "A"    -> [success |-> FALSE, stderr |-> M1Bytes]
      [] content = "B"    -> [success |-> FALSE, stderr |-> M2Bytes]
      [] content = "G"    -> [success |-> TRUE,  stderr |-> WarnBytes]
      [] OTHER            -> [success |-> TRUE,  stderr |-> <<>>]

NoOutput == [launched |-> FALSE]

\* String::from_utf8_lossy(bytes).to_string(): every invalid byte becomes
\* U+FFFD, every other byte is kept.
from_utf8_lossy(bytes) ==
    [i \in 1..Len(bytes) |-> IF bytes[i] < 128 THEN bytes[i] ELSE Replacement]

Ok       == [ok |-> TRUE]
Err(e)   == [ok |-> FALSE, err |-> e]
NoResult == [ok |-> FALSE]

\* status_result with the diagnostic cut to its first character
status_result_cut(out) ==
    IF out.success THEN Ok ELSE Err(SubSeq(from_utf8_lossy(out.stderr), 1, 1))

\* Tail of check_compilation: the match on output.status
status_result(out) ==
    IF out.success THEN Ok ELSE Err(from_utf8_lossy(out.stderr))

\* ------------------------------------------------------------ create_audit
\* verdict with the Err arm dropping the diagnostic
verdict_no_error(res) ==
    IF res.ok THEN [es_valido |-> TRUE,  error_compilacion |-> None]
              ELSE [es_valido |-> FALSE, error_compilacion |-> None]

\* let (es_valido, error_compilacion) = match check_compilation(..)
verdict(res) ==
    IF res.ok THEN [es_valido |-> TRUE,  error_compilacion |-> None]
              ELSE [es_valido |-> FALSE, error_compilacion |-> Some(res.err)]

\* The row INSERT ... RETURNING builds: id and created_at are the store's
\* column defaults.
AiAudit(id, in, v, at) ==
    [id |-> id, prompt |-> in.prompt, codigo_generado |-> in.codigo_generado,
     es_valido |-> v.es_valido, error_compilacion |-> v.error_compilacion,
     created_at |-> at]

\* InsertAudit as an upsert keyed by the snippet
InsertAudit_upsert(rows, row) ==
    {a \in rows : a.codigo_generado # row.codigo_generado} \cup {row}

\* Column default of created_at: the time of the insert, never earlier than
\* that of a row already stored (equal when no time passed in between).
created_at_default(rows) ==
    IF rows = {} THEN {0}
    ELSE LET latest == CHOOSE t \in {a.created_at : a \in rows} :
                          \A a \in rows : a.created_at <= t
         IN {latest, latest + 1}

\* INSERT INTO ai_audits
InsertAudit(rows, row) == rows \cup {row}

\* ------------------------------------------------------------ responses
\* AppError::into_response
into_response(e) ==
    CASE e.kind = "Sqlx"     -> [status |-> 500, error |-> DbGeneric]
      [] e.kind = "Audit"    -> [status |-> 400, error |-> e.msg]
      [] e.kind = "NotFound" -> [status |-> 404, error |-> e.msg]

\* auditor::check_compilation wraps each failure in AppError::Audit
audit_error(msg) == [kind |-> "Audit", msg |-> msg]

\* create_audit_handler: `?` turns a sqlx::Error into AppError::Sqlx
create_audit_handler(res) ==
    IF res.ok THEN [status |-> 201, body |-> res.val]
              ELSE into_response([kind |-> "Sqlx"])

\* get_audit_by_id: SELECT ... WHERE id = $1, fetch_optional
get_audit_by_id(rows, id) ==
    IF \E a \in rows : a.id = id
    THEN [ok |-> TRUE, val |-> Some(CHOOSE a \in rows : a.id = id)]
    ELSE [ok |-> TRUE, val |-> None]

\* QueryRoot::audit hands the service result to the caller unchanged
audit(rows, id) == get_audit_by_id(rows, id)

\* list_audits: SELECT ... ORDER BY created_at DESC.  Every sequence of all
\* rows with non-increasing created_at is a result the store may return.
list_audits(rows) ==
    LET n == Cardinality(rows) IN
    {s \in [1..n -> rows] :
        /\ \A i, j \in 1..n : i # j => s[i] # s[j]
        /\ \A i, j \in 1..n : i < j => s[i].created_at >= s[j].created_at}

\* get_audit_stats with the valid count missing its es_valido filter
get_audit_stats_unfiltered(rows) ==
    LET total == Cardinality(rows)
    IN [total_audits |-> total, valid_audits |-> total,
        invalid_audits |-> total - total]

\* services::get_audit_stats (counts only)
get_audit_stats(rows) ==
    LET total == Cardinality(rows)
        valid == Cardinality({a \in rows : a.es_valido})
    IN [total_audits |-> total, valid_audits |-> valid,
        invalid_audits |-> total - valid]

\* stats_handler
stats_handler(stats) == [status |-> 200, body |-> stats]

\* ------------------------------------------------------------ state
VARIABLES
    fs,       \* scratch directory: path -> content or NoFile
    store,    \* rows of table ai_audits
    pc,       \* request -> position in create_audit
    input,    \* request -> CreateAuditRequest
    output,   \* request -> std::process::Output of its rustc run
    check,    \* request -> value check_compilation returned
    removed,  \* request -> paths its check has passed to fs::remove_file
    reply     \* the response most recently handed to a caller

vars == <<fs, store, pc, input, output, check, removed, reply>>

NoInput == [prompt |-> "", codigo_generado |-> ""]
NoReply == [op |-> "none"]

Init ==
    /\ fs = [p \in Paths |-> NoFile]
    /\ store = {}
    /\ pc = [r \in Requests |-> "idle"]
    /\ input = [r \in Requests |-> NoInput]
    /\ output = [r \in Requests |-> NoOutput]
    /\ check = [r \in Requests |-> NoResult]
    /\ removed = [r \in Requests |-> {}]
    /\ reply = NoReply

Creating == {r \in Requests : pc[r] # "idle"}

\* POST /audit arrives: create_audit calls check_compilation
StartCreate(r, p, c) ==
    /\ pc[r] = "idle"
    /\ Cardinality(store) + Cardinality(Creating) < MaxRecords
    /\ pc' = [pc EXCEPT ![r] = "write"]
    /\ input' = [input EXCEPT ![r] = [prompt |-> p, codigo_generado |-> c]]
    /\ UNCHANGED <<fs, store, output, check, removed, reply>>

\* fs::write(temp_file, code) succeeds
WriteOk(r) ==
    /\ pc[r] = "write"
    /\ fs' = [fs EXCEPT ![temp_file(r)] = input[r].codigo_generado]
    /\ pc' = [pc EXCEPT ![r] = "run"]
    /\ UNCHANGED <<store, input, output, check, removed, reply>>

\* fs::write fails: `?` returns Err at once; the file is left as it was or
\* truncated
WriteFail(r) ==
    /\ pc[r] = "write"
    /\ \E left \in {fs[temp_file(r)], Empty} :
          fs' = [fs EXCEPT ![temp_file(r)] = left]
    /\ check' = [check EXCEPT ![r] = Err(WriteFailed)]
    /\ pc' = [pc EXCEPT ![r] = "checked"]
    /\ UNCHANGED <<store, input, output, removed, reply>>

\* Command::new("rustc")...output(): rustc reads the file at temp_file and,
\* when it succeeds, leaves the library in the out dir
RunRustc(r) ==
    /\ pc[r] = "run"
    /\ LET out == rustc(fs[temp_file(r)]) IN
         /\ output' = [output EXCEPT ![r] =
                          [launched |-> TRUE, success |-> out.success,
                           stderr |-> out.stderr]]
         /\ fs' = IF out.success
                  THEN [fs EXCEPT ![artifact(r)] = Library]
                  ELSE fs
    /\ pc' = [pc EXCEPT ![r] = "rm_src"]
    /\ UNCHANGED <<store, input, check, removed, reply>>

\* rustc cannot be launched: `?` returns Err at once
LaunchFail(r) ==
    /\ pc[r] = "run"
    /\ check' = [check EXCEPT ![r] = Err(LaunchFailed)]
    /\ pc' = [pc EXCEPT ![r] = "checked"]
    /\ UNCHANGED <<fs, store, input, output, removed, reply>>

\* fs::remove_file(path): the file is gone afterwards, or the call fails
\* and the file stays as it is
remove_file(files, path) == {[files EXCEPT ![path] = NoFile], files}

\* let _ = fs::remove_file(temp_file): the outcome is discarded
RemoveSource(r) ==
    /\ pc[r] = "rm_src"
    /\ fs' \in remove_file(fs, temp_file(r))
    /\ removed' = [removed EXCEPT ![r] = @ \cup {temp_file(r)}]
    /\ pc' = [pc EXCEPT ![r] = "rm_lib"]
    /\ UNCHANGED <<store, input, output, check, reply>>

\* let _ = fs::remove_file("/tmp/libaudit_test.rlib"), then the result
RemoveArtifact(r) ==
    /\ pc[r] = "rm_lib"
    /\ fs' \in remove_file(fs, artifact(r))
    /\ removed' = [removed EXCEPT ![r] = @ \cup {artifact(r)}]
    /\ check' = [check EXCEPT ![r] = status_result(output[r])]
    /\ pc' = [pc EXCEPT ![r] = "checked"]
    /\ UNCHANGED <<store, input, output, reply>>

\* create_audit after the check: one INSERT ... RETURNING, then the handler
\* answers and the request is over.  The store assigns the id (a fresh
\* value, named here by insertion rank) and created_at.
Insert(r) ==
    /\ pc[r] = "checked"
    /\ \E at \in created_at_default(store) :
         LET row == AiAudit(Cardinality(store) + 1, input[r],
                            verdict(check[r]), at)
             res == create_audit_handler([ok |-> TRUE, val |-> row])
         IN /\ store' = InsertAudit(store, row)
            /\ reply' = [op |-> "create", status |-> res.status,
                         body |-> res.body]
    /\ pc' = [pc EXCEPT ![r] = "idle"]
    /\ input' = [input EXCEPT ![r] = NoInput]
    /\ output' = [output EXCEPT ![r] = NoOutput]
    /\ check' = [check EXCEPT ![r] = NoResult]
    /\ removed' = [removed EXCEPT ![r] = {}]
    /\ UNCHANGED fs

\* GraphQL query audit(id)
Get(id) ==
    /\ reply' = [op |-> "get", id |-> id, result |-> audit(store, id)]
    /\ UNCHANGED <<fs, store, pc, input, output, check, removed>>

\* GraphQL query audits
List ==
    /\ \E s \in list_audits(store) :
          reply' = [op |-> "list", result |-> [ok |-> TRUE, val |-> s]]
    /\ UNCHANGED <<fs, store, pc, input, output, check, removed>>

\* GET /stats
Stats ==
    /\ LET res == stats_handler(get_audit_stats(store)) IN
          reply' = [op |-> "stats", status |-> res.status, body |-> res.body]
    /\ UNCHANGED <<fs, store, pc, input, output, check, removed>>

Next ==
    \/ \E r \in Requests, p \in Prompts, c \in Snippets : StartCreate(r, p, c)
    \/ \E r \in Requests : WriteOk(r)
    \/ \E r \in Requests : WriteFail(r)
    \/ \E r \in Requests : RunRustc(r)
    \/ \E r \in Requests : LaunchFail(r)
    \/ \E r \in Requests : RemoveSource(r)
    \/ \E r \in Requests : RemoveArtifact(r)
    \/ \E r \in Requests : Insert(r)
    \/ \E id \in Ids : Get(id)
    \/ List
    \/ Stats

Spec == Init /\ [][Next]_vars

\* ------------------------------------------------------------ properties
M1 == from_utf8_lossy(M1Bytes)
M2 == from_utf8_lossy(M2Bytes)

Range(s) == {s[i] : i \in DOMAIN s}

\* requests inside check_compilation, between its first and last statement
InCheck == {r \in Requests : pc[r] \in {"write", "run", "rm_src", "rm_lib"}}

\* the check of request r ended without a compiler verdict: the file could
\* not be written or rustc could not be launched
ToolchainFailure(r) == pc[r] = "checked" /\ output[r] = NoOutput

\* the check of request r ended with the exit status of its compiler run
CompilerExited(r) == pc[r] = "checked" /\ output[r] # NoOutput

\* request r takes the step that ends its create: insert and answer
Completes(r) == pc[r] = "checked" /\ pc'[r] = "idle"

\* C1: no stored record pairs snippet A with B's diagnostic M2, nor snippet
\* B with A's diagnostic M1, whatever the interleaving of concurrent creates.
C1_NoCrossTalk ==
    \A a \in store :
        /\ ~(a.codigo_generado = "A" /\ a.error_compilacion = Some(M2))
        /\ ~(a.codigo_generado = "B" /\ a.error_compilacion = Some(M1))

\* C2: no two compile checks in flight hold the same source path or the
\* same artifact path.
C2_UniquePaths ==
    \A r1, r2 \in InCheck :
        r1 # r2 => /\ temp_file(r1) # temp_file(r2)
                   /\ artifact(r1) # artifact(r2)

\* C3: a create whose check ended in a toolchain failure fails and inserts
\* nothing: the stored set after the call is the stored set before it.
C3_ToolchainFailureWritesNothing ==
    [][\A r \in Requests :
          (Completes(r) /\ ToolchainFailure(r))
             => (store' = store /\ reply'.status >= 400)]_vars

\* C4: every stored record has es_valido true exactly when its
\* error_compilacion is absent.
C4_ValidIffNoError ==
    \A a \in store : a.es_valido = (a.error_compilacion = None)

C4_Witness ==
    /\ \E a, b \in store :
          /\ a.es_valido /\ a.error_compilacion = None
          /\ ~b.es_valido /\ b.error_compilacion # None
    /\ reply.op \in {"get", "list", "stats"}

C6_RecordsImmutable ==
    [][/\ store \subseteq store'
       /\ \A a \in store, b \in store' : b.id = a.id => b = a
       /\ store' # store =>
             /\ Cardinality(store' \ store) = 1
             /\ \E r \in Requests : Completes(r)]_vars

C6_Witness ==
    /\ Cardinality(store) = 2
    /\ \E a, b \in store : a.codigo_generado = b.codigo_generado /\ a # b
    /\ reply.op = "list"

\* C7: List returns all records sorted by created_at descending, and a
\* List that follows a List with no write between returns the same
\* sequence, also when records share a created_at; a Get that follows a
\* Get of the same id with no write between returns identical data.
C7_ReadsRepeatable ==
    [][/\ reply'.op = "list" =>
             LET s == reply'.result.val IN
               /\ Range(s) = store' /\ Len(s) = Cardinality(store')
               /\ \A i, j \in 1..Len(s) :
                     i < j => s[i].created_at >= s[j].created_at
       /\ (reply.op = "list" /\ reply'.op = "list") => reply' = reply
       /\ (reply.op = "get" /\ reply'.op = "get" /\ reply'.id = reply.id)
             => reply' = reply]_vars

\* C8: Get of an id no stored record has fails with NotFound; Get of a
\* stored id returns that record.
C8_GetNotFound ==
    reply.op = "get" =>
        LET res == reply.result
            hit == {a \in store : a.id = reply.id}
        IN IF hit = {}
           THEN ~res.ok /\ res.err.kind = "NotFound"
           ELSE res.ok /\ res.val.some /\ res.val.val \in hit

\* C9: every stats answer has total_audits = number of stored records,
\* valid_audits = number of stored records with es_valido, and
\* invalid_audits = total_audits - valid_audits, at the time of the query.
C9_StatsCounts ==
    reply.op = "stats" =>
        /\ reply.status = 200
        /\ reply.body.total_audits = Cardinality(store)
        /\ reply.body.valid_audits = Cardinality({a \in store : a.es_valido})
        /\ reply.body.invalid_audits =
              reply.body.total_audits - reply.body.valid_audits

C9_Witness ==
    /\ reply.op = "stats"
    /\ reply.body.total_audits = 2
    /\ reply.body.valid_audits = 1
    /\ reply.body.invalid_audits = 1

\* C10: a toolchain failure reaches the caller as a server-side failure
\* (5xx) with a generic message: never a success or client error, never
\* with the internal failure detail in the response.
C10_ToolchainFailureGeneric ==
    [][\A r \in Requests :
          (Completes(r) /\ ToolchainFailure(r)) =>
             /\ reply'.status >= 500
             /\ "error" \in DOMAIN reply'
             /\ reply'.error # check[r].err
             /\ LET viaAudit == into_response(audit_error(check[r].err))
                IN viaAudit.status >= 500 /\ viaAudit.error # check[r].err]_vars

\* request r takes the step on which its check_compilation returns
Returns(r) == pc[r] # "checked" /\ pc'[r] = "checked"

\* C11: on every exit path of the compile check (compiler exited with
\* success or failure, compiler not launched, write failed) the check has
\* tried to remove the source file, and the artifact when one was produced,
\* before it returns; whether a removal failed does not change the result.
C11_CleanupOnEveryExit ==
    [][\A r \in Requests :
          Returns(r) =>
             /\ temp_file(r) \in removed'[r]
             /\ (output'[r] # NoOutput /\ output'[r].success)
                   => artifact(r) \in removed'[r]
             /\ IF output'[r] = NoOutput
                THEN ~check'[r].ok
                ELSE check'[r] = status_result(output'[r])]_vars

====
